---- MODULE Spec2Model ----
(***************************************************************************)
(* Model of the fraud-detection backend (fraud-detection-system.js):       *)
(* the Transaction and User collections, the FraudDetectionService and the *)
(* fraudController handlers.                                               *)
(*                                                                         *)
(* A request handler is an async function: it runs synchronously up to an  *)
(* `await` on a database operation, the operation executes at some later   *)
(* moment, and the handler continues from its result.  Every action below  *)
(* is one database operation together with the synchronous code that       *)
(* follows it up to the next `await`.  Time is counted in hours.           *)
(*                                                                         *)
(* averageTransactionAmount is a JavaScript double; it is modelled as an   *)
(* exact fraction [n, d] in lowest terms.                                  *)
(***************************************************************************)
EXTENDS Integers, Sequences, FiniteSets, TLC

\* ---------------------------------------------------------------- bounds
MaxStarted == 2      \* requests received in one behaviour
MaxScore == 110      \* largest score handed to determineTransactionStatus alone
MaxFaults == 1       \* store operations that fail in one behaviour

\* ---------------------------------------------------------------- inputs
UserIds == {"u1", "u2"}
Countries == {"FR", "DE"}
Delays == {0, 25}        \* hours between one request and the next
ReqIds == 1..MaxStarted
Fields == {"userId", "amount", "receiverAddress", "country"}

\* req.body of POST /transactions/analyze: the fields that are present and
\* their values (the value of an absent field is not read).
Bodies ==
    { [present |-> Fields, userId |-> "u1", amount |-> 1500,
       receiverAddress |-> "addr", country |-> c] : c \in Countries }
    \cup
    { [present |-> Fields, userId |-> "u1", amount |-> a,
       receiverAddress |-> "addr", country |-> "FR"] : a \in {-500, 0} }
    \cup
    { [present |-> Fields, userId |-> "u2", amount |-> 100,
       receiverAddress |-> "addr", country |-> "FR"] }
    \cup
    { [present |-> Fields \ {f}, userId |-> "u1", amount |-> 100,
       receiverAddress |-> "addr", country |-> "FR"] : f \in Fields }

\* ---------------------------------------------------------------- schema
HoursPerDay == 24
DefaultHighRiskThreshold == 1000
DefaultFrequencyCount == 3
DefaultTimeWindowHours == 24

HighAmountPoints == 30
UnusualCountryPoints == 25
UnusualTimePoints == 15
HighFrequencyPoints == 30
RejectedFrom == 70
FlaggedFrom == 40

\* new User({ userId }) : every other path takes its schema default.
NewUser(id, userId) ==
    [id |-> id,
     userId |-> userId,
     usualTransactionTimes |-> << >>,
     usualCountries |-> << >>,
     averageTransactionAmount |-> [n |-> 0, d |-> 1],
     transactionCount |-> 0,
     highRiskThreshold |-> DefaultHighRiskThreshold,
     frequencyThreshold |-> [count |-> DefaultFrequencyCount,
                             timeWindowHours |-> DefaultTimeWindowHours]]

\* new Transaction({ userId, amount, receiverAddress, country, timestamp })
NewTransaction(id, body, timestamp) ==
    [id |-> id,
     userId |-> body.userId,
     amount |-> body.amount,
     receiverAddress |-> body.receiverAddress,
     country |-> body.country,
     timestamp |-> timestamp,
     status |-> "pending",
     risk |-> [score |-> 0, factors |-> << >>]]

\* ---------------------------------------------------------------- helpers
Abs(x) == IF x < 0 THEN -x ELSE x

RECURSIVE GCD(_, _)
GCD(a, b) == IF b = 0 THEN a ELSE GCD(b, a % b)

\* the fraction n/d (d > 0) in lowest terms
Frac(n, d) ==
    LET g == GCD(Abs(n), d) IN [n |-> n \div g, d |-> d \div g]

Includes(seq, x) == \E i \in 1..Len(seq) : seq[i] = x

\* new Date(timestamp).getHours()
GetHours(timestamp) == timestamp % HoursPerDay

\* !x of the controller's validation: an absent field is undefined, and the
\* number 0 is falsy as well.
Falsy(body, f) ==
    \/ f \notin body.present
    \/ f = "amount" /\ body.amount = 0

\* ------------------------------------------- FraudDetectionService (pure)
\* acc is the pair of locals riskScore / riskFactors of analyzeTransaction.
NoRisk == [riskScore |-> 0, riskFactors |-> << >>]

Trigger(acc, tag, points) ==
    [riskScore |-> acc.riskScore + points,
     riskFactors |-> Append(acc.riskFactors, tag)]

\* Rule 1: Check if amount is high
Rule1(acc, transaction, user) ==
    IF transaction.amount > user.highRiskThreshold
    THEN Trigger(acc, "high_amount", HighAmountPoints)
    ELSE acc

\* Rule 2 without the guard on an empty baseline.
Rule2_NoColdStart(acc, transaction, user) ==
    IF ~Includes(user.usualCountries, transaction.country)
    THEN Trigger(acc, "unusual_country", UnusualCountryPoints)
    ELSE acc

\* Rule 2: Check if transaction is to a foreign country
Rule2(acc, transaction, user) ==
    IF /\ Len(user.usualCountries) > 0
       /\ ~Includes(user.usualCountries, transaction.country)
    THEN Trigger(acc, "unusual_country", UnusualCountryPoints)
    ELSE acc

\* Rule 3: Check if transaction time is unusual
Rule3(acc, transaction, user) ==
    IF /\ Len(user.usualTransactionTimes) > 0
       /\ ~Includes(user.usualTransactionTimes, GetHours(transaction.timestamp))
    THEN Trigger(acc, "unusual_time", UnusualTimePoints)
    ELSE acc

\* t.amount > user.averageTransactionAmount * 1.5, with the average n/d
AboveOneAndAHalfAverage(amount, avg) == 2 * amount * avg.d > 3 * avg.n

\* Rule 4 without the count of large amounts.
Rule4_FrequencyOnly(acc, user, recentTransactions) ==
    IF Cardinality(recentTransactions) >= user.frequencyThreshold.count
    THEN Trigger(acc, "high_frequency_large_amounts", HighFrequencyPoints)
    ELSE acc

\* Rule 4: Check if transaction frequency is high with larger amounts
Rule4(acc, user, recentTransactions) ==
    IF Cardinality(recentTransactions) >= user.frequencyThreshold.count
    THEN LET highAmountRecent ==
                 Cardinality({ t \in recentTransactions :
                     AboveOneAndAHalfAverage(t.amount, user.averageTransactionAmount) })
         IN  IF highAmountRecent >= 2
             THEN Trigger(acc, "high_frequency_large_amounts", HighFrequencyPoints)
             ELSE acc
    ELSE acc

\* The thresholds taken as strict lower bounds.
determineTransactionStatus_Strict(riskScore) ==
    IF riskScore > RejectedFrom THEN "rejected"
    ELSE IF riskScore > FlaggedFrom THEN "flagged"
    ELSE "completed"

determineTransactionStatus(riskScore) ==
    IF riskScore >= RejectedFrom THEN "rejected"
    ELSE IF riskScore >= FlaggedFrom THEN "flagged"
    ELSE "completed"

\* An evaluation whose rule 4 compares with the average the adapter leaves,
\* the current transaction folded in.
analyzeTransaction_AdaptFirst(transaction, user, recentTransactions) ==
    LET adapted ==
            [user EXCEPT !.averageTransactionAmount =
                Frac(@.n * user.transactionCount + transaction.amount * @.d,
                     @.d * (user.transactionCount + 1))]
        acc == Rule4(Rule3(Rule2(Rule1(NoRisk, transaction, user),
                                 transaction, user),
                           transaction, user),
                     adapted, recentTransactions)
    IN  [riskScore |-> acc.riskScore,
         riskFactors |-> acc.riskFactors,
         status |-> determineTransactionStatus(acc.riskScore)]

\* What analyzeTransaction returns for a transaction, the profile it read
\* and the result of its query for recent transactions (lines 89-91,
\* 101-135, 140-144).
analyzeTransaction(transaction, user, recentTransactions) ==
    LET acc == Rule4(Rule3(Rule2(Rule1(NoRisk, transaction, user),
                                 transaction, user),
                           transaction, user),
                     user, recentTransactions)
    IN  [riskScore |-> acc.riskScore,
         riskFactors |-> acc.riskFactors,
         status |-> determineTransactionStatus(acc.riskScore)]

\* (average * count + amount) / (count + 1)
NewAverage(avg, count, amount) ==
    Frac(avg.n * count + amount * avg.d, avg.d * (count + 1))

PushIfAbsent(seq, x) == IF Includes(seq, x) THEN seq ELSE Append(seq, x)

\* An adapter that does not learn from transactions above the threshold.
updateUserProfile_SkipHighAmount(user, transaction) ==
    IF transaction.amount > user.highRiskThreshold
    THEN user
    ELSE [user EXCEPT
            !.averageTransactionAmount =
                NewAverage(user.averageTransactionAmount, user.transactionCount,
                           transaction.amount),
            !.transactionCount = user.transactionCount + 1,
            !.usualTransactionTimes =
                PushIfAbsent(user.usualTransactionTimes,
                             GetHours(transaction.timestamp)),
            !.usualCountries = PushIfAbsent(user.usualCountries, transaction.country)]

\* The synchronous part of updateUserProfile: the in-memory document after
\* the assignments and pushes, before user.save().
updateUserProfile(user, transaction) ==
    [user EXCEPT
       !.averageTransactionAmount =
           NewAverage(user.averageTransactionAmount, user.transactionCount,
                      transaction.amount),
       !.transactionCount = user.transactionCount + 1,
       !.usualTransactionTimes =
           PushIfAbsent(user.usualTransactionTimes, GetHours(transaction.timestamp)),
       !.usualCountries = PushIfAbsent(user.usualCountries, transaction.country)]

\* ------------------------------------------------------------ the store
Pushed(loaded, current) == SubSeq(current, Len(loaded) + 1, Len(current))

\* A save that writes the whole in-memory document over the stored one.
SaveUser_Overwrite(stored, loaded, user) == user

\* user.save() of a document loaded as `loaded` and now `user`, applied to
\* the stored document: the update sets the changed scalar paths and
\* pushes the elements appended to the arrays; other paths keep what is
\* stored.
SaveUser(stored, loaded, user) ==
    [stored EXCEPT
       !.averageTransactionAmount =
           IF user.averageTransactionAmount # loaded.averageTransactionAmount
           THEN user.averageTransactionAmount ELSE @,
       !.transactionCount =
           IF user.transactionCount # loaded.transactionCount
           THEN user.transactionCount ELSE @,
       !.highRiskThreshold =
           IF user.highRiskThreshold # loaded.highRiskThreshold
           THEN user.highRiskThreshold ELSE @,
       !.frequencyThreshold =
           IF user.frequencyThreshold # loaded.frequencyThreshold
           THEN user.frequencyThreshold ELSE @,
       !.usualTransactionTimes =
           @ \o Pushed(loaded.usualTransactionTimes, user.usualTransactionTimes),
       !.usualCountries =
           @ \o Pushed(loaded.usualCountries, user.usualCountries)]

\* ---------------------------------------------------------------- state
VARIABLES
    now,            \* the clock (Date.now(), new Date()), in hours
    users,          \* the User collection: a set of documents
    transactions,   \* the Transaction collection: a set of documents
    started,        \* number of requests received so far
    req,            \* the requests: locals of controller and service
    statusIn,       \* argument of a stand-alone determineTransactionStatus call
    statusOut,      \* and its result
    evalIn,         \* inputs of a stand-alone evaluation of the four rules
    evalOut         \* and what analyzeTransaction returns for them

pure == <<statusIn, statusOut, evalIn, evalOut>>
store == <<now, users, transactions, started, req>>
vars == <<now, users, transactions, started, req, statusIn, statusOut,
          evalIn, evalOut>>

\* req.body of the PATCH: highRiskThreshold (0: not given) and
\* frequencyThreshold (given or not; the keys it carries).
NoPatch == [highRiskThreshold |-> 0, frequencyGiven |-> FALSE, frequencyThreshold |-> {}]

PatchBodies ==
    { [highRiskThreshold |-> 500, frequencyGiven |-> FALSE, frequencyThreshold |-> {}],
      [highRiskThreshold |-> 0, frequencyGiven |-> TRUE,
       frequencyThreshold |-> {<<"count", 2>>}] }

DefaultBody ==
    [present |-> Fields, userId |-> "u1", amount |-> 100,
     receiverAddress |-> "addr", country |-> "FR"]

\* A request that has not been received yet.
\*   kind         "score": POST /transactions/analyze,
\*                "patch": PATCH /users/:userId/risk-profile
\*   pc           where the handler is suspended
\*   response     the HTTP status sent, 0 while there is none
\*   transaction  the controller's `transaction`
\*   loaded       the profile as the store returned it (what save() diffs against)
\*   user         the service's `user`, mutated in place by updateUserProfile
\*   created      this request inserted the profile (line 97-98)
\*   since        lower bound of the Transaction.find of rule 4
\*   profileSave  the un-awaited user.save() of updateUserProfile
\*   adapted      number of updateUserProfile calls made for this request
\*   alone        every earlier request of the same user had been answered
\*                when this one was received
\*   faulted      an awaited store operation of this request threw
IdleReq ==
    [kind |-> "score", pc |-> "idle", body |-> DefaultBody,
     patchUser |-> "", patch |-> NoPatch,
     transaction |-> NewTransaction(0, DefaultBody, 0),
     loaded |-> NewUser(0, ""), user |-> NewUser(0, ""), created |-> FALSE,
     since |-> 0, recentTransactions |-> {},
     riskScore |-> 0, riskFactors |-> << >>,
     response |-> 0, profileSave |-> "none", adapted |-> 0, alone |-> FALSE,
     faulted |-> FALSE]

NoEval ==
    [transaction |-> IdleReq.transaction, user |-> IdleReq.user,
     recentTransactions |-> {}]

NoResult == [riskScore |-> 0, riskFactors |-> << >>, status |-> "none"]

\* Both collections empty, no request received yet.
InitStore ==
    /\ now = 0
    /\ users = {}
    /\ transactions = {}
    /\ started = 0
    /\ req = [r \in ReqIds |-> IdleReq]

Init ==
    /\ InitStore
    /\ statusIn = 0
    /\ statusOut = "none"
    /\ evalIn = NoEval
    /\ evalOut = NoResult

\* The locals of a handler are gone once it has returned and its pending
\* save has reached the store; what the request leaves behind is its
\* answer and the transaction document it built.
Returned(record) ==
    IF record.pc = "done" /\ record.profileSave # "pending"
    THEN [record EXCEPT
            !.loaded = IdleReq.loaded, !.user = IdleReq.user,
            !.since = 0, !.recentTransactions = {},
            !.riskScore = 0, !.riskFactors = << >>]
    ELSE record

\* the requests that passed validation for userId
RequestsOf(userId) ==
    { r \in ReqIds : /\ req[r].pc # "idle"
                     /\ req[r].kind = "score"
                     /\ req[r].response # 400
                     /\ req[r].transaction.userId = userId }

\* ------------------------------------------------- POST /transactions/analyze
\* Validate required fields (line 188)
MissingRequiredFields(body) == \E f \in Fields : Falsy(body, f)

\* A scoring request arrives `delay` hours after the previous request: the
\* controller up to the first await of the service (lines 185-202, 93).
\* The clock advances between arrivals; the time a handler itself takes is
\* below the clock's resolution of one hour.
Start(body, delay) ==
    /\ started < MaxStarted
    /\ now' = now + delay
    /\ LET r == started + 1 IN
       /\ started' = r
       /\ IF MissingRequiredFields(body)
          THEN req' = [req EXCEPT ![r] =
                         [IdleReq EXCEPT !.pc = "done", !.body = body,
                                         !.response = 400]]
          ELSE req' = [req EXCEPT ![r] =
                         [IdleReq EXCEPT
                            !.pc = "findUser", !.body = body,
                            !.transaction = NewTransaction(r, body, now'),
                            !.alone = \A q \in RequestsOf(body.userId) :
                                          req[q].pc = "done"]]
    /\ UNCHANGED <<users, transactions, pure>>

\* With the profile in hand the handler runs rules 1-3 and issues the
\* query of rule 4, its lower bound taken from the clock (lines 101-126).
\* Rules 1-3 read the transaction and the profile only, so their outcome
\* is computed together with rule 4 when the query returns.
AfterProfile(r, user, created) ==
    [req[r] EXCEPT
       !.pc = "findRecent",
       !.loaded = user,
       !.user = user,
       !.created = created,
       !.since = now - user.frequencyThreshold.timeWindowHours]

\* User.findOne({ userId }) returns (lines 93-99).
FindUser(r) ==
    /\ req[r].pc = "findUser"
    /\ LET found == { d \in users : d.userId = req[r].transaction.userId } IN
       IF found = {}
       THEN req' = [req EXCEPT ![r] =
                      [req[r] EXCEPT
                         !.pc = "createUser",
                         !.user = NewUser(r, req[r].transaction.userId)]]
       ELSE req' = [req EXCEPT ![r] =
                      AfterProfile(r, CHOOSE d \in found : TRUE, FALSE)]
    /\ UNCHANGED <<now, users, transactions, started, pure>>

\* The insert of the new profile (line 98).  userId is a unique index
\* (line 46): a second insert for the same userId is a duplicate-key error,
\* which the controller's catch turns into a 500 (lines 226-231).
CreateUser(r) ==
    /\ req[r].pc = "createUser"
    /\ IF \E d \in users : d.userId = req[r].user.userId
       THEN /\ req' = [req EXCEPT ![r] =
                         Returned([req[r] EXCEPT !.pc = "done", !.response = 500])]
            /\ UNCHANGED users
       ELSE /\ users' = users \cup {req[r].user}
            /\ req' = [req EXCEPT ![r] = AfterProfile(r, req[r].user, TRUE)]
    /\ UNCHANGED <<now, transactions, started, pure>>

\* A query that forgets the userId filter.
RecentTransactions_AnyUser(stored, userId, since) ==
    { t \in stored : t.timestamp >= since }

\* Transaction.find({userId, timestamp: {$gte: ...}}) (lines 121-126)
RecentTransactions(stored, userId, since) ==
    { t \in stored : t.userId = userId /\ t.timestamp >= since }

\* A controller that forgets to copy the status.
WithRiskAnalysis_StatusUnset(transaction, riskAnalysis) ==
    [transaction EXCEPT !.risk = [score |-> riskAnalysis.riskScore,
                                  factors |-> riskAnalysis.riskFactors]]

\* transaction.risk = {...}; transaction.status = ... (lines 208-212)
WithRiskAnalysis(transaction, riskAnalysis) ==
    [transaction EXCEPT !.risk = [score |-> riskAnalysis.riskScore,
                                  factors |-> riskAnalysis.riskFactors],
                        !.status = riskAnalysis.status]

\* Transaction.find returns: rule 4, the call of updateUserProfile (not
\* awaited: its save is left pending), the result, and the controller's
\* assignments up to transaction.save() (lines 121-144, 208-215).
FindRecent(r) ==
    /\ req[r].pc = "findRecent"
    /\ LET recent == RecentTransactions(transactions,
                                        req[r].transaction.userId, req[r].since)
           acc == analyzeTransaction(req[r].transaction, req[r].user, recent)
       IN  req' = [req EXCEPT ![r] =
                     [req[r] EXCEPT
                        !.pc = "saveTx",
                        !.recentTransactions = recent,
                        !.riskScore = acc.riskScore,
                        !.riskFactors = acc.riskFactors,
                        !.user = updateUserProfile(req[r].user, req[r].transaction),
                        !.adapted = @ + 1,
                        !.profileSave = "pending",
                        !.transaction = WithRiskAnalysis(@, acc)]]
    /\ UNCHANGED <<now, users, transactions, started, pure>>

\* The user.save() of updateUserProfile reaches the store (line 173).
SaveProfile(r) ==
    /\ req[r].profileSave = "pending"
    /\ users' = { IF d.id = req[r].user.id
                  THEN SaveUser(d, req[r].loaded, req[r].user)
                  ELSE d : d \in users }
    /\ req' = [req EXCEPT ![r] = Returned([req[r] EXCEPT !.profileSave = "done"])]
    /\ UNCHANGED <<now, transactions, started, pure>>

\* transaction.save() returns and the 200 is sent (lines 215-225).
SaveTx(r) ==
    /\ req[r].pc = "saveTx"
    /\ transactions' = transactions \cup {req[r].transaction}
    /\ req' = [req EXCEPT ![r] =
                  Returned([req[r] EXCEPT !.pc = "done", !.response = 200])]
    /\ UNCHANGED <<now, users, started, pure>>

\* ------------------------------------------ PATCH /users/:userId/risk-profile
\* controllers/fraudController.js requires Transaction and the service only
\* (lines 180-181): `User` is not bound there.
ControllerImportsUser == FALSE

\* { ...user.frequencyThreshold, ...frequencyThreshold }
Spread(old, patch) ==
    [count |-> IF \E p \in patch : p[1] = "count"
               THEN (CHOOSE p \in patch : p[1] = "count")[2] ELSE old.count,
     timeWindowHours |->
               IF \E p \in patch : p[1] = "timeWindowHours"
               THEN (CHOOSE p \in patch : p[1] = "timeWindowHours")[2]
               ELSE old.timeWindowHours]

\* the document of updateRiskProfile after its two conditional assignments
Patched(user, body) ==
    [user EXCEPT
       !.highRiskThreshold =
           IF body.highRiskThreshold # 0 THEN body.highRiskThreshold ELSE @,
       !.frequencyThreshold =
           IF body.frequencyGiven THEN Spread(@, body.frequencyThreshold) ELSE @]

\* updateRiskProfile (lines 256-295), received `delay` hours after the
\* previous request.  Evaluating `User` at line 261 throws a ReferenceError
\* inside the try, so the handler answers 500 at once.
UpdateRiskProfile(userId, body, delay) ==
    /\ started < MaxStarted
    /\ now' = now + delay
    /\ started' = started + 1
    /\ LET found == { d \in users : d.userId = userId }
           status == IF ~ControllerImportsUser THEN 500
                     ELSE IF found = {} THEN 404 ELSE 200
       IN  /\ users' = IF status = 200
                       THEN { IF d \in found
                              THEN SaveUser(d, d, Patched(d, body))
                              ELSE d : d \in users }
                       ELSE users
           /\ req' = [req EXCEPT ![started + 1] =
                         [IdleReq EXCEPT !.kind = "patch", !.pc = "done",
                                         !.patchUser = userId, !.patch = body,
                                         !.response = status]]
    /\ UNCHANGED <<transactions, pure>>

\* ------------------------------------------------------ a store that fails
Faults ==
    Cardinality({ r \in ReqIds : req[r].faulted })
        + Cardinality({ r \in ReqIds : req[r].profileSave = "failed" })

\* A catch block that answers as if nothing had happened.
Catch_ReportSuccess(error) == 200

\* The status the catch block of analyzeTransaction answers with
\* (lines 226-231).
Catch(error) == 500

\* An awaited store operation of the request throws: findOne, the insert of
\* the profile, find, or transaction.save().  The await rethrows inside the
\* controller's try, and the catch answers (lines 205, 215, 226-231).
AwaitedOpFails(r) ==
    /\ req[r].pc \in {"findUser", "createUser", "findRecent", "saveTx"}
    /\ Faults < MaxFaults
    /\ req' = [req EXCEPT ![r] =
                  Returned([req[r] EXCEPT !.pc = "done", !.faulted = TRUE,
                                          !.response = Catch("PersistenceError")])]
    /\ UNCHANGED <<now, users, transactions, started, pure>>

\* The user.save() of updateUserProfile fails.  The promise of
\* updateUserProfile is dropped at line 138, so its rejection reaches no
\* await and no catch: the handler goes on as if the save had succeeded.
SaveProfileFails(r) ==
    /\ req[r].profileSave = "pending"
    /\ Faults < MaxFaults
    /\ req' = [req EXCEPT ![r] = Returned([req[r] EXCEPT !.profileSave = "failed"])]
    /\ UNCHANGED <<now, users, transactions, started, pure>>

\* ------------------------------------------------ the pure functions alone
Scores == (0 - MaxScore)..MaxScore

InitStatus ==
    /\ InitStore
    /\ statusIn \in Scores
    /\ statusOut = "none"
    /\ evalIn = NoEval
    /\ evalOut = NoResult

Classify ==
    /\ statusOut = "none"
    /\ statusOut' = determineTransactionStatus(statusIn)
    /\ UNCHANGED <<store, statusIn, evalIn, evalOut>>

SpecStatus == InitStatus /\ [][Classify]_vars

\* Stored transactions a query for recent ones can return.
EvalStored ==
    { [NewTransaction(i, [DefaultBody EXCEPT !.amount = a], 0)
         EXCEPT !.status = "completed"] :
        i \in 1..3, a \in {-500, 100, 1500} }

EvalRecent == { S \in SUBSET EvalStored : \A t, u \in S : t.id = u.id => t = u }

EvalTransactions ==
    { NewTransaction(9, [DefaultBody EXCEPT !.amount = a, !.country = c], h) :
        a \in {-500, 100, 1500}, c \in Countries, h \in {0, 1} }

\* Profiles: the new one, and ones that have learned from transactions.
EvalUsers ==
    { NewUser(1, "u1") }
    \cup
    { [NewUser(1, "u1") EXCEPT
         !.usualTransactionTimes = times,
         !.usualCountries = countries,
         !.averageTransactionAmount = Frac(avg, 1),
         !.transactionCount = 3] :
        times \in {<<0>>, <<0, 1>>}, countries \in {<<"FR">>, <<"DE", "FR">>},
        avg \in {-500, 100, 1500} }

InitEval ==
    /\ InitStore
    /\ statusIn = 0
    /\ statusOut = "none"
    /\ evalIn \in [transaction : EvalTransactions, user : EvalUsers,
                    recentTransactions : EvalRecent]
    /\ evalOut = NoResult

Evaluate ==
    /\ evalOut = NoResult
    /\ evalOut' = analyzeTransaction(evalIn.transaction, evalIn.user,
                                     evalIn.recentTransactions)
    /\ UNCHANGED <<store, statusIn, statusOut, evalIn>>

SpecEval == InitEval /\ [][Evaluate]_vars

Next ==
    \/ \E body \in Bodies, delay \in Delays : Start(body, delay)
    \/ \E r \in ReqIds : FindUser(r)
    \/ \E r \in ReqIds : CreateUser(r)
    \/ \E r \in ReqIds : FindRecent(r)
    \/ \E r \in ReqIds : SaveProfile(r)
    \/ \E r \in ReqIds : SaveTx(r)
    \/ \E u \in {"u1", "u0"}, body \in PatchBodies, delay \in Delays :
            UpdateRiskProfile(u, body, delay)

Spec == Init /\ [][Next]_vars

\* The scoring requests sent while the store may fail: complete bodies only.
FaultyBodies ==
    { b \in Bodies : b.present = Fields /\ b.amount > 0 /\ b.country = "FR" }

\* ------------------------------------------- a store with a history for u1
\* Four scoring requests of u1 handled one after the other at time 0, each
\* answered and its profile save complete before the next arrives.
SeedAmounts == <<1200, 1200, 100, 100>>

SeedId(k) == MaxStarted + k

SeedBody(k) ==
    [present |-> Fields, userId |-> "u1", amount |-> SeedAmounts[k],
     receiverAddress |-> "addr", country |-> "FR"]

\* The two collections after the first k of these requests: each request
\* goes through findOne / create, find, the rules, updateUserProfile,
\* user.save() and transaction.save() (lines 93-144, 153-174, 196-215).
RECURSIVE Served(_)
Served(k) ==
    IF k = 0
    THEN [user |-> NewUser(SeedId(1), "u1"), transactions |-> {}]
    ELSE LET before == Served(k - 1)
             transaction == NewTransaction(SeedId(k), SeedBody(k), 0)
             recent == RecentTransactions(before.transactions, "u1",
                           0 - before.user.frequencyThreshold.timeWindowHours)
             acc == analyzeTransaction(transaction, before.user, recent)
         IN  [user |-> SaveUser(before.user, before.user,
                                updateUserProfile(before.user, transaction)),
              transactions |-> before.transactions
                                 \cup {WithRiskAnalysis(transaction, acc)}]

InitSeeded ==
    /\ now = 0
    /\ users = {Served(Len(SeedAmounts)).user}
    /\ transactions = Served(Len(SeedAmounts)).transactions
    /\ started = 0
    /\ req = [r \in ReqIds |-> IdleReq]
    /\ statusIn = 0
    /\ statusOut = "none"
    /\ evalIn = NoEval
    /\ evalOut = NoResult

SpecSeeded == InitSeeded /\ [][Next]_vars

NextFaulty ==
    \/ \E body \in FaultyBodies : Start(body, 0)
    \/ \E r \in ReqIds : FindUser(r)
    \/ \E r \in ReqIds : CreateUser(r)
    \/ \E r \in ReqIds : FindRecent(r)
    \/ \E r \in ReqIds : SaveProfile(r)
    \/ \E r \in ReqIds : SaveTx(r)
    \/ \E r \in ReqIds : AwaitedOpFails(r)
    \/ \E r \in ReqIds : SaveProfileFails(r)

SpecFaulty == Init /\ [][NextFaulty]_vars

\* ================================================================ claims
Range(seq) == { seq[i] : i \in 1..Len(seq) }

Occurrences(seq, x) == Cardinality({ i \in 1..Len(seq) : seq[i] = x })

Tags == {"high_amount", "unusual_country", "unusual_time",
         "high_frequency_large_amounts"}

\* the points column of the rule table
PointsOf(tag) ==
    CASE tag = "high_amount" -> 30
      [] tag = "unusual_country" -> 25
      [] tag = "unusual_time" -> 15
      [] tag = "high_frequency_large_amounts" -> 30

\* the condition column of the rule table, over the learned sets
Holds(tag, transaction, profile, recent) ==
    CASE tag = "high_amount" ->
             transaction.amount > profile.highRiskThreshold
      [] tag = "unusual_country" ->
             /\ Range(profile.usualCountries) # {}
             /\ transaction.country \notin Range(profile.usualCountries)
      [] tag = "unusual_time" ->
             /\ Range(profile.usualTransactionTimes) # {}
             /\ (transaction.timestamp % 24) \notin Range(profile.usualTransactionTimes)
      [] tag = "high_frequency_large_amounts" ->
             /\ Cardinality(recent) >= profile.frequencyThreshold.count
             /\ \E t1, t2 \in recent :
                    /\ t1 # t2
                    /\ 2 * t1.amount * profile.averageTransactionAmount.d
                           > 3 * profile.averageTransactionAmount.n
                    /\ 2 * t2.amount * profile.averageTransactionAmount.d
                           > 3 * profile.averageTransactionAmount.n

RECURSIVE SumPoints(_)
SumPoints(tags) ==
    IF tags = {} THEN 0
    ELSE LET tag == CHOOSE x \in tags : TRUE
         IN  PointsOf(tag) + SumPoints(tags \ {tag})

TriggeredRules(in) ==
    { tag \in Tags : Holds(tag, in.transaction, in.user, in.recentTransactions) }

\* C1: the score analyzeTransaction returns is the sum of the points of
\* exactly the rules whose condition holds, and the factors hold the tag of
\* every triggered rule once and no other tag.
C1_ScoreIsSumOfTriggeredRules ==
    evalOut # NoResult =>
        /\ evalOut.riskScore = SumPoints(TriggeredRules(evalIn))
        /\ \A tag \in Tags :
               Occurrences(evalOut.riskFactors, tag)
                   = IF tag \in TriggeredRules(evalIn) THEN 1 ELSE 0
        /\ Range(evalOut.riskFactors) \subseteq Tags

\* all four rules trigger together
C1_Witness ==
    /\ evalOut.riskScore = 100
    /\ Len(evalOut.riskFactors) = 4

\* C2: rejected from 70 up, flagged from 40 to 69, completed below 40;
\* 39 is completed, 40 and 69 are flagged, 70 is rejected.
C2_StatusThresholds ==
    statusOut # "none" =>
        /\ statusOut \in {"rejected", "flagged", "completed"}
        /\ statusOut = "rejected" <=> statusIn >= 70
        /\ statusOut = "flagged" <=> (40 <= statusIn /\ statusIn < 70)
        /\ statusOut = "completed" <=> statusIn < 40
        /\ statusIn = 39 => statusOut = "completed"
        /\ statusIn \in {40, 69} => statusOut = "flagged"
        /\ statusIn = 70 => statusOut = "rejected"

C2_Witness == statusIn = 70 /\ statusOut = "rejected"

\* ---- the stored profile of a user and the requests scored for it
RECURSIVE SumAmounts(_)
SumAmounts(rs) ==
    IF rs = {} THEN 0
    ELSE LET r == CHOOSE x \in rs : TRUE
         IN  req[r].transaction.amount + SumAmounts(rs \ {r})

\* the request was answered 200 and its profile save has reached the store
Settled(r) ==
    /\ req[r].pc = "done"
    /\ req[r].response = 200
    /\ req[r].profileSave = "done"

\* C3: when two scoring requests of the same user overlap, neither profile
\* update is lost: once both are answered and saved, transactionCount has
\* grown by 2 and the average folds in both amounts.
C3_NoLostUpdate ==
    \A u \in UserIds : \A r1, r2 \in ReqIds :
        ( /\ r1 < r2
          /\ RequestsOf(u) = {r1, r2}
          /\ ~req[r2].alone
          /\ req[r1].transaction.amount > 0 /\ req[r2].transaction.amount > 0
          /\ Settled(r1) /\ Settled(r2) )
        => \E d \in users :
               /\ d.userId = u
               /\ d.transactionCount = 2
               /\ d.averageTransactionAmount = Frac(SumAmounts({r1, r2}), 2)

\* C4: after transactions scored one after another for a user who started
\* without a profile, transactionCount is the number of transactions scored
\* and averageTransactionAmount is the mean of their amounts.
C4_RunningMean ==
    \A u \in UserIds :
        ( /\ RequestsOf(u) # {}
          /\ \A r \in RequestsOf(u) :
                 req[r].alone /\ Settled(r) /\ req[r].transaction.amount > 0 )
        => \E d \in users :
               /\ d.userId = u
               /\ d.transactionCount = Cardinality(RequestsOf(u))
               /\ d.averageTransactionAmount =
                      Frac(SumAmounts(RequestsOf(u)), Cardinality(RequestsOf(u)))

\* C5: a stored profile never loses a learned country or hour, whatever
\* request is handled.
C5_LearnedSetsOnlyGrow ==
    [][ \A d \in users : \E e \in users' :
            /\ e.id = d.id
            /\ Range(d.usualCountries) \subseteq Range(e.usualCountries)
            /\ Range(d.usualTransactionTimes) \subseteq Range(e.usualTransactionTimes)
      ]_vars

\* a profile that has learned two countries and two hours
C5_Witness ==
    \E d \in users :
        /\ Cardinality(Range(d.usualCountries)) = 2
        /\ Cardinality(Range(d.usualTransactionTimes)) = 2

\* C6: the transaction of the request that created the profile of its user
\* carries neither unusual_country nor unusual_time.
C6_ColdStart ==
    \A r \in ReqIds :
        req[r].created =>
            /\ "unusual_country" \notin Range(req[r].transaction.risk.factors)
            /\ "unusual_time" \notin Range(req[r].transaction.risk.factors)

\* a first transaction, from DE at an hour other than 0, scored and answered
C6_Witness ==
    \E r \in ReqIds :
        /\ req[r].created
        /\ req[r].response = 200
        /\ req[r].transaction.country = "DE"
        /\ req[r].transaction.timestamp % 24 # 0

\* C7: a first transaction above the threshold is scored 30 and completed;
\* a second one of the same user, sent after the first was answered, above
\* the threshold, from another country at another hour, is scored 70 and
\* rejected.
C7_EndToEnd ==
    \A r1, r2 \in ReqIds :
        ( /\ r1 < r2
          /\ req[r1].kind = "score" /\ req[r2].kind = "score"
          /\ req[r1].pc = "done" /\ req[r1].response = 200
          /\ req[r2].pc = "done" /\ req[r2].response = 200
          /\ req[r1].transaction.userId = req[r2].transaction.userId
          /\ RequestsOf(req[r1].transaction.userId) = {r1, r2}
          /\ req[r1].created
          /\ req[r2].alone
          /\ req[r1].transaction.amount > 1000
          /\ req[r2].transaction.amount > 1000
          /\ req[r1].transaction.country # req[r2].transaction.country
          /\ req[r1].transaction.timestamp % 24 # req[r2].transaction.timestamp % 24 )
        => /\ req[r1].transaction.risk.score = 30
           /\ req[r1].transaction.status = "completed"
           /\ req[r2].transaction.risk.score = 70
           /\ req[r2].transaction.status = "rejected"

\* C8: there is at most one profile per userId, and a scoring request that
\* passed validation is scored, also when two first requests of a new user
\* are handled at the same time.
C8_CreatedOnceBothScored ==
    /\ \A d, e \in users : d.userId = e.userId => d = e
    /\ \A r \in ReqIds :
           (req[r].kind = "score" /\ req[r].pc = "done" /\ req[r].response # 400)
               => req[r].response = 200

\* C9: the adapter is applied exactly once for every evaluated transaction,
\* whatever its status: the profile in hand gets transactionCount + 1 and the
\* hour and country of the transaction, and so does the stored profile once
\* the save has reached it.
C9_AdapterUnconditional ==
    \A r \in ReqIds :
        req[r].transaction.status \in {"completed", "flagged", "rejected"} =>
            /\ req[r].adapted = 1
            /\ req[r].profileSave \in {"pending", "done"}
            /\ req[r].profileSave = "pending" =>
                   /\ req[r].user.transactionCount = req[r].loaded.transactionCount + 1
                   /\ req[r].transaction.country \in Range(req[r].user.usualCountries)
                   /\ (req[r].transaction.timestamp % 24)
                          \in Range(req[r].user.usualTransactionTimes)
            /\ req[r].profileSave = "done" =>
                   \E d \in users :
                       /\ d.userId = req[r].transaction.userId
                       /\ d.transactionCount >= 1
                       /\ req[r].transaction.country \in Range(d.usualCountries)
                       /\ (req[r].transaction.timestamp % 24)
                              \in Range(d.usualTransactionTimes)

\* a rejected transaction whose profile update has been saved
C9_Witness ==
    \E r \in ReqIds :
        /\ req[r].transaction.status = "rejected"
        /\ req[r].profileSave = "done"

\* C10: a scoring request with userId, amount, receiverAddress or country
\* absent, or with a negative amount, gets a validation error and is neither
\* evaluated nor stored, and no profile is created or changed for it.
C10_InvalidRequestRejected ==
    \A r \in ReqIds :
        ( /\ req[r].kind = "score"
          /\ req[r].pc # "idle"
          /\ \/ req[r].body.present # Fields
             \/ req[r].body.amount < 0 )
        => /\ req[r].pc = "done" => req[r].response = 400
           /\ req[r].adapted = 0
           /\ ~req[r].created
           /\ \A t \in transactions : t.id # r

\* the request got as far as the result of analyzeTransaction
Evaluated(r) == req[r].transaction.status \in {"completed", "flagged", "rejected"}

\* C11: a scoring request whose profile save failed is not answered with
\* success.
C11_ProfileSaveFailurePropagates ==
    \A r \in ReqIds :
        req[r].profileSave = "failed" => req[r].response # 200

\* C12: a 200 is sent only once the transaction is stored with the score,
\* factors and status that were computed; when storing it fails, nothing is
\* stored for the request and the answer is a failure.
C12_SuccessOnlyAfterStored ==
    \A r \in ReqIds :
        req[r].kind = "score" =>
            /\ req[r].response = 200 =>
                   /\ Evaluated(r)
                   /\ req[r].transaction \in transactions
            /\ (req[r].faulted /\ Evaluated(r)) =>
                   /\ req[r].response = 500
                   /\ \A t \in transactions : t.id # r

\* transaction.save() failed for an evaluated transaction
C12_Witness ==
    \E r \in ReqIds :
        /\ req[r].faulted
        /\ Evaluated(r)
        /\ req[r].response = 500

\* the stored documents of every user but `userId`
OthersData(docs, userId) == { d \in docs : d.userId # userId }

\* C13: a step of a scoring request of user A leaves the profiles and the
\* stored transactions of every other user as they were, and the profile and
\* the recent transactions its result is computed from are A's own.
C13_UsersIndependent ==
    [][\A r \in ReqIds :
          (req'[r] # req[r] /\ req'[r].kind = "score") =>
              LET a == req'[r].transaction.userId
              IN  /\ OthersData(users', a) = OthersData(users, a)
                  /\ OthersData(transactions', a) = OthersData(transactions, a)
                  /\ req'[r].pc = "saveTx" =>
                         /\ req'[r].loaded.userId = a
                         /\ OthersData(req'[r].recentTransactions, a) = {}
                         /\ LET acc == analyzeTransaction(req[r].transaction,
                                           req'[r].loaded,
                                           req'[r].recentTransactions)
                            IN  /\ req'[r].transaction.risk.score = acc.riskScore
                                /\ req'[r].transaction.risk.factors = acc.riskFactors
                                /\ req'[r].transaction.status = acc.status]_vars

\* a request of u2 has been evaluated while u1 has a profile and a stored
\* transaction inside u2's time window
C13_Witness ==
    \E r \in ReqIds :
        /\ req[r].pc = "saveTx"
        /\ req[r].transaction.userId = "u2"
        /\ \E d \in users : d.userId = "u1"
        /\ \E t \in transactions : t.userId = "u1" /\ t.timestamp >= req[r].since

\* C14: a scoring request received after the previous request of the user
\* was answered with success is evaluated against a stored profile that
\* holds that request's adaptation: the profile save of a request is
\* complete when its 200 is sent.
C14_ReadsPreviousAdaptation ==
    \A r1, r2 \in ReqIds :
        ( /\ r1 < r2
          /\ req[r1].kind = "score" /\ req[r2].kind = "score"
          /\ req[r1].transaction.userId = req[r2].transaction.userId
          /\ req[r1].response = 200
          /\ req[r2].alone
          /\ req[r2].pc = "saveTx" )
        => /\ req[r2].loaded.transactionCount >= 1
           /\ Includes(req[r2].loaded.usualCountries, req[r1].transaction.country)
           /\ Includes(req[r2].loaded.usualTransactionTimes,
                       GetHours(req[r1].transaction.timestamp))

\* C15: every stored transaction has status completed, flagged or rejected,
\* the one its stored score classifies to (rejected from 70, flagged from 40,
\* completed below), and a stored transaction is never changed or removed.
C15_StoredStatusFinal ==
    [][ /\ \A t \in transactions : t \in transactions'
        /\ \A t \in transactions' :
               /\ t.status \in {"completed", "flagged", "rejected"}
               /\ t.status = "rejected" <=> t.risk.score >= 70
               /\ t.status = "flagged" <=> (t.risk.score >= 40 /\ t.risk.score < 70)
               /\ t.status = "completed" <=> t.risk.score < 40
      ]_vars

\* a completed transaction stayed stored while a rejected one was added
C15_Witness ==
    \E t1, t2 \in transactions :
        /\ t1.id < t2.id
        /\ t1.status = "completed"
        /\ t2.status = "rejected" /\ t2.risk.score = 70

\* C16: the recent transactions a request is scored against are stored
\* transactions of earlier requests, never the transaction being scored, and
\* high_frequency_large_amounts is raised exactly when the rule holds for
\* the average of the profile as it was read, before updateUserProfile.
C16_Rule4PastOnly ==
    \A r \in ReqIds :
        (req[r].kind = "score" /\ req[r].pc = "saveTx") =>
            /\ \A t \in req[r].recentTransactions : t.id # r
            /\ \A t \in transactions : t.id # r
            /\ Occurrences(req[r].transaction.risk.factors,
                           "high_frequency_large_amounts") > 0
                 <=> Holds("high_frequency_large_amounts", req[r].transaction,
                           req[r].loaded, req[r].recentTransactions)

\* rule 4 fired for a request although it would not hold for the average
\* that includes the request's own amount
C16_Witness ==
    \E r \in ReqIds :
        /\ req[r].pc = "saveTx"
        /\ Occurrences(req[r].transaction.risk.factors,
                       "high_frequency_large_amounts") > 0
        /\ ~Holds("high_frequency_large_amounts", req[r].transaction,
                  req[r].user, req[r].recentTransactions)

\* C17: once a transaction of a user from country c at hour h has been
\* scored and answered, a transaction of that user received afterwards is
\* not tagged unusual_country when it comes from c, and not tagged
\* unusual_time when it is made at hour h.
C17_BaselineAbsorbsScored ==
    \A r1, r2 \in ReqIds :
        ( /\ r1 < r2
          /\ req[r1].kind = "score" /\ req[r2].kind = "score"
          /\ req[r1].transaction.userId = req[r2].transaction.userId
          /\ req[r1].response = 200
          /\ req[r2].alone
          /\ Evaluated(r2) )
        => /\ req[r1].transaction.country = req[r2].transaction.country
                => Occurrences(req[r2].transaction.risk.factors,
                               "unusual_country") = 0
           /\ GetHours(req[r1].transaction.timestamp)
                = GetHours(req[r2].transaction.timestamp)
                => Occurrences(req[r2].transaction.risk.factors,
                               "unusual_time") = 0

\* C18: a scoring request carrying userId, receiverAddress and country and an
\* amount that is not negative, zero included, is not turned away as
\* invalid: it is evaluated, stored and answered with score and status.
C18_ZeroAmountAccepted ==
    \A r \in ReqIds :
        ( /\ req[r].kind = "score"
          /\ req[r].pc = "done"
          /\ req[r].body.present = Fields
          /\ req[r].body.amount >= 0 )
        => /\ req[r].response # 400
           /\ req[r].response = 200 =>
                  /\ Evaluated(r)
                  /\ \E t \in transactions : t.id = r

\* C19: scoring leaves highRiskThreshold and frequencyThreshold of every
\* profile at the values it was created with, and a risk-profile update for
\* a userId without profile is answered 404 and leaves the user without
\* profile.
C19_FrameAndNotFound ==
    /\ \A d \in users :
           /\ d.highRiskThreshold = DefaultHighRiskThreshold
           /\ d.frequencyThreshold = [count |-> DefaultFrequencyCount,
                                      timeWindowHours |-> DefaultTimeWindowHours]
    /\ \A r \in ReqIds :
           ( /\ req[r].kind = "patch"
             /\ req[r].pc = "done"
             /\ \A d \in users : d.userId # req[r].patchUser )
           => req[r].response = 404

====
